---- MODULE Spec2Model ----
(***************************************************************************)
(* Product Siksha backend (src/backend/app.py): the relational store       *)
(* (users, questions, user_progress), the completion toggle, the question  *)
(* filter/sort pipeline and the password authentication handlers.          *)
(*                                                                         *)
(* Text is modelled as a sequence of tokens (a run of digits with its      *)
(* value and its width, a run of white space, or any other single          *)
(* character), so that parsing, trimming and lower-casing are computed and *)
(* not assumed.                                                            *)
(***************************************************************************)
EXTENDS Integers, Sequences, FiniteSets, TLC

VARIABLES backend, users_id_seq, users, questions, progress, now, ntoggles,
          creds, hist, last_toggle, response, config, tokens, sessions, log

vars == <<backend, users_id_seq, users, questions, progress, now, ntoggles,
          creds, hist, last_toggle, response, config, tokens, sessions, log>>

\* users_id_seq is the last value given by the sequence of users.id on
\* PostgreSQL; SQLite has no sequence, and the variable keeps its first value.

\* sessions holds the database sessions of the requests between their query and
\* their commit.  The handlers leave three variables to the specification: the
\* server's configuration besides the database, the tokens the clients hold,
\* and the answered requests in the order of their responses.
request_vars == <<config, tokens, log>>

\* Highest clock reading (in half-second ticks) a request may observe.
MaxTime == 3
\* Number of toggle requests explored from the initial store: alone, between
\* fetches without a date range, and between fetches with one.
MaxToggles == 4
MaxFetchToggles == 2
MaxFilterToggles == 1
\* Number of requests served with their steps interleaved.
MaxRaceRequests == 3
\* Latest clock reading at which a token is issued; tokens handed out, and
\* requests made with a token.
MaxIssueTime == 1
MaxTokens == 1
MaxTokenRequests == 2

\* Python's None (also the absent optional datetime).
None == <<>>

----------------------------------------------------------------------------
(* Text tokens *)

\* A run of w digits with value n.
Num(n, w) == [k |-> "num", n |-> n, w |-> w]
\* Any other single character.
Chr(c) == [k |-> c, n |-> 0, w |-> 0]
Slash == Chr("/")
Dash == Chr("-")
Colon == Chr(":")
\* A run of w blanks.
Blanks(w) == [k |-> " ", n |-> 0, w |-> w]
WS == Blanks(1)

\* str.strip(): leading and trailing white space removed.
RECURSIVE lstrip(_)
lstrip(s) == IF s # <<>> /\ Head(s).k = " " THEN lstrip(Tail(s)) ELSE s

RECURSIVE rstrip(_)
rstrip(s) ==
    IF s # <<>> /\ s[Len(s)].k = " " THEN rstrip(SubSeq(s, 1, Len(s) - 1)) ELSE s

strip(s) == rstrip(lstrip(s))

\* str.lower(): each upper-case letter of the modelled alphabet to its lower case.
lower(s) ==
    [i \in 1..Len(s) |->
        CASE s[i].k = "A" -> Chr("a")
          [] s[i].k = "B" -> Chr("b")
          [] s[i].k = "C" -> Chr("c")
          [] s[i].k = "X" -> Chr("x")
          [] OTHER -> s[i]] \o <<>>

----------------------------------------------------------------------------
(* datetime: <<year, month, day, hour, minute, second>> *)

IsLeap(y) == (y % 4 = 0 /\ y % 100 # 0) \/ y % 400 = 0

DaysInMonth(y, m) ==
    IF m = 2 THEN (IF IsLeap(y) THEN 29 ELSE 28)
    ELSE IF m \in {4, 6, 9, 11} THEN 30 ELSE 31

\* datetime.min
datetime_min == <<1, 1, 1, 0, 0, 0>>

\* a < b on datetimes (lexicographic on the fields).
DtLess(a, b) ==
    \E i \in 1..6 : a[i] < b[i] /\ \A j \in 1..(i - 1) : a[j] = b[j]

FmtMDYHMS == <<"m", "/", "d", "/", "Y", " ", "H", ":", "M", ":", "S">>
FmtMDY == <<"m", "/", "d", "/", "Y">>
FmtYMD == <<"Y", "-", "m", "-", "d">>

\* One format element against one token, as strptime's regular expressions do:
\* %m 1[0-2]|0[1-9]|[1-9]   %d 3[01]|[12]\d|0[1-9]|[1-9]   %Y \d\d\d\d
\* %H 2[0-3]|[0-1]\d|\d     %M [0-5]\d|\d                  %S 6[0-1]|[0-5]\d|\d
\* a blank of the format matches a run of white space, any other character itself.
MatchDirective(f, tok) ==
    CASE f = "m" -> tok.k = "num" /\ ((tok.w = 1 /\ tok.n \in 1..9) \/ (tok.w = 2 /\ tok.n \in 1..12))
      [] f = "d" -> tok.k = "num" /\ ((tok.w = 1 /\ tok.n \in 1..9) \/ (tok.w = 2 /\ tok.n \in 1..31))
      [] f = "Y" -> tok.k = "num" /\ tok.w = 4
      [] f = "H" -> tok.k = "num" /\ (tok.w = 1 \/ (tok.w = 2 /\ tok.n <= 23))
      [] f = "M" -> tok.k = "num" /\ (tok.w = 1 \/ (tok.w = 2 /\ tok.n <= 59))
      [] f = "S" -> tok.k = "num" /\ (tok.w = 1 \/ (tok.w = 2 /\ tok.n <= 61))
      [] OTHER -> tok.k = f

\* The value of directive f in the matched text, or dflt when the format lacks it.
Field(s, fmt, f, dflt) ==
    IF \E i \in 1..Len(fmt) : fmt[i] = f
    THEN s[CHOOSE i \in 1..Len(fmt) : fmt[i] = f].n
    ELSE dflt

\* %d also matches one blank followed by one digit (" [1-9]"): such a padded day
\* is folded into its digit token, so that tokens and format elements align.
FoldPaddedDay(s, fmt) ==
    LET j == CHOOSE i \in 1..Len(fmt) : fmt[i] = "d"
    IN IF /\ Len(s) > j
          /\ s[j].k = " " /\ s[j].w = 1
          /\ s[j + 1].k = "num" /\ s[j + 1].w = 1 /\ s[j + 1].n \in 1..9
       THEN SubSeq(s, 1, j - 1) \o SubSeq(s, j + 1, Len(s))
       ELSE s

\* Whether the whole text matches the format.
Matches(s, fmt) ==
    Len(s) = Len(fmt) /\ \A i \in 1..Len(fmt) : MatchDirective(fmt[i], s[i])

\* The datetime built from the matched fields, or None where the datetime
\* constructor raises ValueError (year 0, day out of range for month, second > 59).
BuildDatetime(s, fmt) ==
         LET y == Field(s, fmt, "Y", 1900)
             m == Field(s, fmt, "m", 1)
             d == Field(s, fmt, "d", 1)
             H == Field(s, fmt, "H", 0)
             M == Field(s, fmt, "M", 0)
             S == Field(s, fmt, "S", 0)
         IN IF y >= 1 /\ d <= DaysInMonth(y, m) /\ S <= 59
            THEN <<y, m, d, H, M, S>>
            ELSE None

\* datetime.strptime(text, fmt): the datetime, or None for ValueError.
strptime(text, fmt) ==
    IF Matches(FoldPaddedDay(text, fmt), fmt)
    THEN BuildDatetime(FoldPaddedDay(text, fmt), fmt)
    ELSE None

parse_timestamp(ts_string) ==
    IF ts_string = <<>> THEN None
    ELSE IF strptime(strip(ts_string), FmtMDYHMS) # None
         THEN strptime(strip(ts_string), FmtMDYHMS)
    ELSE IF strptime(strip(ts_string), FmtMDY) # None
         THEN strptime(strip(ts_string), FmtMDY)
    ELSE strptime(strip(ts_string), FmtYMD)

----------------------------------------------------------------------------
(* Clock readings and their ISO text *)

\* datetime.utcnow() at clock reading t: readings are half a second apart, so
\* that some carry microseconds and some do not.
utcnow(t) ==
    LET seconds == t \div 2
    IN <<2024, 1, 1 + seconds \div 86400, (seconds \div 3600) % 24,
         (seconds \div 60) % 60, seconds % 60, (t % 2) * 500000>>

\* The w decimal digits of n as character codes ("0" is 48).
RECURSIVE Digits(_, _)
Digits(n, w) == IF w = 0 THEN <<>> ELSE Append(Digits(n \div 10, w - 1), 48 + (n % 10))

\* datetime.isoformat() as character codes: YYYY-MM-DDTHH:MM:SS, followed by
\* .ffffff only when the microsecond is not 0 ("-" 45, "." 46, ":" 58, "T" 84).
isoformat(dt) ==
    Digits(dt[1], 4) \o <<45>> \o Digits(dt[2], 2) \o <<45>> \o Digits(dt[3], 2)
    \o <<84>> \o Digits(dt[4], 2) \o <<58>> \o Digits(dt[5], 2) \o <<58>> \o Digits(dt[6], 2)
    \o (IF dt[7] = 0 THEN <<>> ELSE <<46>> \o Digits(dt[7], 6))

\* a < b on Python strings from position i on (by code point; a proper prefix
\* is smaller).
RECURSIVE StrLessFrom(_, _, _)
StrLessFrom(a, b, i) ==
    IF i > Len(b) THEN FALSE
    ELSE IF i > Len(a) THEN TRUE
    ELSE IF a[i] # b[i] THEN a[i] < b[i]
    ELSE StrLessFrom(a, b, i + 1)

StrLess(a, b) == StrLessFrom(a, b, 1)

\* list.sort(): stable; before is the set of index pairs <<i, j>> for which
\* s[i]'s key sorts strictly before s[j]'s.  Element i lands after every
\* element strictly before it and after the earlier elements that tie with it.
StableSort(s, before) ==
    LET rank == [i \in 1..Len(s) |->
                    Cardinality({j \in 1..Len(s) :
                        <<j, i>> \in before \/ (<<i, j>> \notin before /\ j < i)}) + 1]
                 @@ [x \in {} |-> x]
    IN [p \in 1..Len(s) |-> s[CHOOSE i \in 1..Len(s) : rank[i] = p]] \o <<>>

\* [s[i] for i in range(len(s)) if i in kept]: the elements at the kept
\* indices, in their order.
Filter(s, kept) ==
    LET nth(p) == CHOOSE i \in kept : Cardinality({j \in kept : j <= i}) = p
    IN [p \in 1..Cardinality(kept) |-> s[nth(p)]] \o <<>>

----------------------------------------------------------------------------
(* Texts used as inputs *)

\* "3/1/2023 10:00:00"
Ts_3_1_2023_10h == <<Num(3, 1), Slash, Num(1, 1), Slash, Num(2023, 4), WS,
                     Num(10, 2), Colon, Num(0, 2), Colon, Num(0, 2)>>
\* "3/2/2023"
Ts_3_2_2023 == <<Num(3, 1), Slash, Num(2, 1), Slash, Num(2023, 4)>>
\* "2023-02-15"
Ts_2023_02_15 == <<Num(2023, 4), Dash, Num(2, 2), Dash, Num(15, 2)>>
\* " 2023-03-01 "
Ts_2023_03_01_blanks == <<WS, Num(2023, 4), Dash, Num(3, 2), Dash, Num(1, 2), WS>>
\* "1/1/0001"
Ts_1_1_0001 == <<Num(1, 1), Slash, Num(1, 1), Slash, Num(1, 4)>>
\* "2/30/2023"
Ts_2_30_2023 == <<Num(2, 1), Slash, Num(30, 2), Slash, Num(2023, 4)>>
\* "n-a": no date
Ts_not_a_date == <<Chr("n"), Dash, Chr("a")>>
\* ""
Empty == <<>>

\* "2023-03-01"
Date_2023_03_01 == <<Num(2023, 4), Dash, Num(3, 2), Dash, Num(1, 2)>>
\* "2023-02-30": well-formed text, no calendar date
Date_2023_02_30 == <<Num(2023, 4), Dash, Num(2, 2), Dash, Num(30, 2)>>

\* Request values of from_date and to_date.
DateArgs == {Empty, Date_2023_03_01, Date_2023_02_30}

\* Request values of the company filter.
CompanyArgs == {"", "Acme"}

\* Request values of the category path segment: a known slug, a label used as a
\* slug, and a slug no question carries.
CategoryArgs == {"product-design", "Technical", "nope"}

----------------------------------------------------------------------------
(* The store *)

\* hash_password: SHA-256 hex digest, modelled as a collision-free digest of
\* the password text.
hash_password(password) == <<"sha256", password>>

\* "a@x", "b@x"
EmailA == <<Chr("a"), Chr("@"), Chr("x")>>
EmailB == <<Chr("b"), Chr("@"), Chr("x")>>

\* Rows of users present when the question requests are explored.
SeedUsers ==
    { [id |-> 1, email |-> EmailA, password_hash |-> hash_password("password")],
      [id |-> 2, email |-> EmailB, password_hash |-> hash_password("password456")] }

Q(ts, company, category) ==
    [timestamp |-> ts, company_normalized |-> company, question_category |-> category]

\* Rows of questions as loaded by init_db, keyed by id.
QuestionsA ==
    (1 :> Q(Ts_3_1_2023_10h, "Acme", "Product Design")) @@
    (2 :> Q(Ts_3_2_2023, "Beta", "Product Design")) @@
    (3 :> Q(Ts_not_a_date, "Acme", "Product Design")) @@
    (4 :> Q(Ts_2023_02_15, "Acme", "Technical"))

QuestionsB ==
    (1 :> Q(Ts_1_1_0001, "Acme", "Product Design")) @@
    (2 :> Q(Empty, "Beta", "Product Design")) @@
    (3 :> Q(Ts_2023_03_01_blanks, "Acme", "Product Design")) @@
    (4 :> Q(Ts_2_30_2023, "Acme", "Technical"))

QuestionTables == {QuestionsA, QuestionsB}

\* parse_timestamp on the timestamp texts of the question tables, and isoformat
\* on the clock readings, each evaluated once.
TimestampTexts == {t[id].timestamp : t \in QuestionTables, id \in 1..4}
parsed_timestamp == [ts \in TimestampTexts |-> parse_timestamp(ts)] @@ [x \in {} |-> x]
iso_text == [dt \in {utcnow(t) : t \in 0..MaxTime} |-> isoformat(dt)] @@ [x \in {} |-> x]

\* question_id values of toggle requests; 9 identifies no question.
ToggleIds == {1, 2, 3, 9}

UserIds == {u.id : u \in users}

\* Variant: the query filters on the question only.
progress_rows_of_any_user(user_id, question_id) ==
    {r \in progress : r.question_id = question_id}

\* UserProgress.query.filter_by(user_id, question_id)
progress_rows(user_id, question_id) ==
    {r \in progress : r.user_id = user_id /\ r.question_id = question_id}

has_progress(user_id, question_id) == progress_rows(user_id, question_id) # {}

\* .first() of that query
progress_first(user_id, question_id) ==
    CHOOSE r \in progress_rows(user_id, question_id) : TRUE

----------------------------------------------------------------------------
(* toggle_question_completion *)

\* Variant: the timestamp is not cleared when the flag flips to false.
toggled_progress_keeps_timestamp(user_id, question_id, t) ==
    IF has_progress(user_id, question_id)
    THEN LET old == progress_first(user_id, question_id)
         IN [old EXCEPT !.is_completed = ~old.is_completed,
                        !.completed_at = IF ~old.is_completed THEN utcnow(t)
                                         ELSE old.completed_at]
    ELSE [user_id |-> user_id, question_id |-> question_id,
          is_completed |-> TRUE, completed_at |-> utcnow(t)]

\* Variant: an existing row is marked completed instead of flipped.
toggled_progress_sets_true(user_id, question_id, t) ==
    IF has_progress(user_id, question_id)
    THEN [progress_first(user_id, question_id) EXCEPT
              !.is_completed = TRUE, !.completed_at = utcnow(t)]
    ELSE [user_id |-> user_id, question_id |-> question_id,
          is_completed |-> TRUE, completed_at |-> utcnow(t)]

\* The UserProgress row the handler leaves in the session: an existing row with
\* the flag flipped and the timestamp set or cleared, or a new completed row.
toggled_progress(user_id, question_id, t) ==
    IF has_progress(user_id, question_id)
    THEN LET old == progress_first(user_id, question_id)
         IN [old EXCEPT !.is_completed = ~old.is_completed,
                        !.completed_at = IF ~old.is_completed THEN utcnow(t) ELSE None]
    ELSE [user_id |-> user_id, question_id |-> question_id,
          is_completed |-> TRUE, completed_at |-> utcnow(t)]

\* Variant: the flag as it was before the flip is returned.
new_status_stale(user_id, question_id) ==
    IF has_progress(user_id, question_id)
    THEN progress_first(user_id, question_id).is_completed
    ELSE TRUE

\* new_status as returned by the handler.
new_status(user_id, question_id) ==
    IF has_progress(user_id, question_id)
    THEN ~progress_first(user_id, question_id).is_completed
    ELSE TRUE

\* db.session.commit() of the row: PostgreSQL enforces the foreign keys of
\* user_progress, SQLite (as configured here) does not.
commit_ok(row) ==
    \/ backend = "sqlite"
    \/ (row.question_id \in DOMAIN questions /\ row.user_id \in UserIds)

\* What the pair's row looked like: "absent", "false" or "true".
RowState(user_id, question_id) ==
    IF ~has_progress(user_id, question_id) THEN "absent"
    ELSE IF progress_first(user_id, question_id).is_completed THEN "true" ELSE "false"

\* The number given to the next request that opens a database session.
next_session_id == Len(log) + Cardinality(sessions) + 1

\* The database session of the handler when it reaches db.session.commit()
\* (app.py 421-439): whether the query found a row (seen is what it returned),
\* the row as flipped or created, and the status to return.
toggle_session(user_id, question_id, t) ==
    [id |-> next_session_id, op |-> "toggle", user_id |-> user_id,
     question_id |-> question_id, t |-> t,
     found |-> has_progress(user_id, question_id),
     row |-> toggled_progress(user_id, question_id, t),
     new_status |-> new_status(user_id, question_id),
     seen |-> progress_rows(user_id, question_id)]

\* toggle_question_completion up to the commit (app.py 417-439), at clock
\* reading t.  Requests of other clients may be served before its commit.
toggle_query(user_id, question_id, t) ==
    /\ sessions' = sessions \cup {toggle_session(user_id, question_id, t)}
    /\ now' = t
    /\ UNCHANGED <<backend, users_id_seq, users, questions, progress, ntoggles, creds, hist,
                   last_toggle, response>>

\* Variant: user_progress without its primary key.
insert_progress_ok_without_key(user_id, question_id) == TRUE

\* INSERT INTO user_progress: (user_id, question_id) is the primary key.
insert_progress_ok(user_id, question_id) == ~has_progress(user_id, question_id)

\* toggle_question_completion from db.session.commit() to the response (app.py
\* 441-446): an UPDATE of the row found by the query, or an INSERT of the new
\* row; fails is a commit that raises for a reason outside the data (the
\* connection, a lock), answered 500 after the rollback like a refused row.
\* The response tells, besides the answer, whether the commit was carried out.
toggle_commit(s, fails) ==
    LET req == [op |-> "toggle", user_id |-> s.user_id, question_id |-> s.question_id,
                found |-> s.found,
                stale |-> s.seen # progress_rows(s.user_id, s.question_id)]
        pair == <<s.user_id, s.question_id>>
    IN /\ IF /\ ~fails
             /\ commit_ok(s.row)
             /\ (s.found \/ insert_progress_ok(s.user_id, s.question_id))
          THEN /\ progress' =
                    IF s.found
                    THEN (progress \ progress_rows(s.user_id, s.question_id))
                             \cup {s.row}
                    ELSE progress \cup {s.row}
               /\ response' = req @@ [status |-> 200, is_completed |-> s.new_status,
                                      committed |-> TRUE]
               /\ hist' = [hist EXCEPT ![pair] =
                              [n |-> IF @.n < 2 THEN @.n + 1 ELSE 2,
                               prev |-> RowState(s.user_id, s.question_id),
                               orig |-> @.prev,
                               set_at |-> IF s.row.is_completed THEN s.t ELSE -1]]
               /\ last_toggle' = [user_id |-> s.user_id, question_id |-> s.question_id,
                                  is_completed |-> s.row.is_completed]
          ELSE /\ response' = req @@ [status |-> 500, committed |-> FALSE,
                                      error |-> IF fails THEN "OperationalError"
                                                ELSE "IntegrityError"]
               /\ UNCHANGED <<progress, hist, last_toggle>>
       /\ sessions' = sessions \ {s}
       /\ ntoggles' = ntoggles + 1
       /\ UNCHANGED <<backend, users_id_seq, users, questions, now, creds>>

----------------------------------------------------------------------------
(* get_questions *)

category_map ==
    [slug \in {"product-design", "execution-metrics", "product-strategy",
               "behavioral", "estimation-pricing", "technical", "other"} |->
        CASE slug = "product-design" -> "Product Design"
          [] slug = "execution-metrics" -> "Execution & Metrics"
          [] slug = "product-strategy" -> "Product Strategy"
          [] slug = "behavioral" -> "Behavioral"
          [] slug = "estimation-pricing" -> "Estimation & Pricing"
          [] slug = "technical" -> "Technical"
          [] slug = "other" -> "Other"]

\* Variant: an unknown slug falls back to a fixed label.
category_name_default_other(category) ==
    IF category \in DOMAIN category_map THEN category_map[category] ELSE "Other"

\* category_map.get(category, category)
category_name(category) ==
    IF category \in DOMAIN category_map THEN category_map[category] ELSE category

\* Variant: a malformed from_date becomes the earliest date instead of no bound.
parse_from_date_malformed_as_min(from_date_str) ==
    IF from_date_str = Empty THEN None
    ELSE IF strptime(from_date_str, FmtYMD) = None THEN datetime_min
    ELSE strptime(from_date_str, FmtYMD)

\* Variant: to_date stays at midnight.
parse_to_date_midnight(to_date_str) ==
    IF to_date_str = Empty THEN None ELSE strptime(to_date_str, FmtYMD)

\* from_date: parsed when the argument is non-empty and well-formed, else None.
parse_from_date(from_date_str) ==
    IF from_date_str = Empty THEN None ELSE strptime(from_date_str, FmtYMD)

\* to_date: likewise, moved to 23:59:59 of its day.
parse_to_date(to_date_str) ==
    IF to_date_str = Empty \/ strptime(to_date_str, FmtYMD) = None THEN None
    ELSE LET d == strptime(to_date_str, FmtYMD)
         IN <<d[1], d[2], d[3], 23, 59, 59>>

\* Ids of the rows the SQL query selects (category, and company when given).
query_ids(category, company_filter) ==
    {id \in DOMAIN questions :
        /\ questions[id].question_category = category_name(category)
        /\ (company_filter # "" => questions[id].company_normalized = company_filter)}

\* The number of rows the outer join with the user's progress gives for a
\* question: one for each progress row of the pair, one when there is none.
joined_rows(user_id, id) ==
    IF has_progress(user_id, id) THEN Cardinality(progress_rows(user_id, id)) ELSE 1

\* The date filter of the result loop: whether the row is kept.
passes_date_filter(id, from_date, to_date) ==
    IF from_date # None \/ to_date # None
    THEN LET row_date == parsed_timestamp[questions[id].timestamp]
         IN /\ row_date # None
            /\ ~(from_date # None /\ DtLess(row_date, from_date))
            /\ ~(to_date # None /\ DtLess(to_date, row_date))
    ELSE TRUE

\* q_dict of one joined row (question id, the requesting user's progress row if any).
q_dict(user_id, id) ==
    [id |-> id,
     timestamp |-> questions[id].timestamp,
     company_normalized |-> questions[id].company_normalized,
     question_category |-> questions[id].question_category,
     is_completed |-> IF has_progress(user_id, id)
                      THEN progress_first(user_id, id).is_completed ELSE FALSE,
     completed_at |-> IF has_progress(user_id, id)
                         /\ progress_first(user_id, id).completed_at # None
                      THEN iso_text[progress_first(user_id, id).completed_at]
                      ELSE None]

\* final_questions before sorting; results is the sequence of ids in the order
\* the query returned them.
final_questions(user_id, results, from_date_str, to_date_str) ==
    LET from_date == parse_from_date(from_date_str)
        to_date == parse_to_date(to_date_str)
        keep == {i \in 1..Len(results) :
                    passes_date_filter(results[i], from_date, to_date)}
        kept == Filter(results, keep)
    IN [i \in 1..Len(kept) |-> q_dict(user_id, kept[i])] \o <<>>

\* Sort key of a completed question: x.get('completed_at') or ''.
completed_key(x) == IF x.completed_at = None THEN <<>> ELSE x.completed_at

\* Sort key of an uncompleted question: parse_timestamp(timestamp) or datetime.min.
uncompleted_key(x) ==
    IF parsed_timestamp[x.timestamp] = None THEN datetime_min
    ELSE parsed_timestamp[x.timestamp]

completed_before(x, y) == StrLess(completed_key(x), completed_key(y))

\* Variant: reverse=True left out.
uncompleted_before_ascending(x, y) == DtLess(uncompleted_key(x), uncompleted_key(y))

\* reverse=True: the later timestamp first.
uncompleted_before(x, y) == DtLess(uncompleted_key(y), uncompleted_key(x))

is_completed_q(x) == x.is_completed
not_completed_q(x) == ~x.is_completed

completed_questions(final) ==
    LET c == Filter(final, {i \in 1..Len(final) : is_completed_q(final[i])})
    IN StableSort(c, {ij \in (1..Len(c)) \X (1..Len(c)) :
                         completed_before(c[ij[1]], c[ij[2]])})

uncompleted_questions(final) ==
    LET u == Filter(final, {i \in 1..Len(final) : not_completed_q(final[i])})
    IN StableSort(u, {ij \in (1..Len(u)) \X (1..Len(u)) :
                         uncompleted_before(u[ij[1]], u[ij[2]])})

\* Variant: the blocks concatenated the other way round.
final_list_uncompleted_first(user_id, results, from_date_str, to_date_str) ==
    LET final == final_questions(user_id, results, from_date_str, to_date_str)
    IN uncompleted_questions(final) \o completed_questions(final)

final_list(user_id, results, from_date_str, to_date_str) ==
    LET final == final_questions(user_id, results, from_date_str, to_date_str)
    IN completed_questions(final) \o uncompleted_questions(final)

\* The orders in which the query may return the selected rows.
Orders(ids) ==
    {o \in [1..Cardinality(ids) -> ids] : \A i, j \in DOMAIN o : i # j => o[i] # o[j]}

get_questions(user_id, category, company_filter, from_date_str, to_date_str, results) ==
    /\ response' =
         LET out == final_list(user_id, results, from_date_str, to_date_str)
         IN [op |-> "questions", status |-> 200, user_id |-> user_id,
             slug |-> category, company |-> company_filter,
             from_date |-> from_date_str, to_date |-> to_date_str,
             category |-> category_name(category),
             count |-> Len(out),
             questions |-> out]
    /\ UNCHANGED <<backend, users_id_seq, users, questions, progress, now, ntoggles, creds, hist,
                   last_toggle, sessions>>

----------------------------------------------------------------------------
(* signup, login, change_password *)

\* " A@X ": EmailA in upper case between blanks
EmailAUpper == <<WS, Chr("A"), Chr("@"), Chr("X"), WS>>
\* " "
Blank == <<WS>>

\* "c@x", and " C@X "
EmailC == <<Chr("c"), Chr("@"), Chr("x")>>
EmailCUpper == <<WS, Chr("C"), Chr("@"), Chr("X"), WS>>

\* Request values of email, and of the password fields.
EmailArgs == {Empty, Blank, EmailA, EmailAUpper, EmailB}
PasswordArgs == {"", "short", "secret", "hunter22"}

\* data.get('email', '').strip().lower(), in each of the three handlers.
signup_email(email) == lower(strip(email))

\* Variant: the login handler trims but does not lower-case.
login_email_not_lowered(email) == strip(email)

login_email(email) == lower(strip(email))
change_password_email(email) == lower(strip(email))

\* User.query.filter_by(email=email)
users_by_email(email) == {u \in users : u.email = email}

\* User.query.filter_by(email=email, password_hash=hash_password(password))
users_by_credentials(email, password) ==
    {u \in users : u.email = email /\ u.password_hash = hash_password(password)}

\* The id the database gives the next users row.  PostgreSQL takes it from the
\* sequence, which never gives a value again, whatever became of the INSERT it
\* was taken for; SQLite gives the largest rowid plus one, and the ids of the
\* stored users are 1, 2, ... without a gap.
next_user_id ==
    IF backend = "postgresql" THEN users_id_seq + 1 ELSE Cardinality(users) + 1

\* timedelta(hours=24), in seconds.
hours_24 == 86400

\* jwt.encode of the identity and of exp = utcnow() + 24 hours, signed with the
\* server's secret.  The encoder writes exp as whole seconds (the microseconds
\* of the datetime are dropped); issued_at is the clock reading, kept for the
\* properties.
issue_token(user) ==
    [kind |-> "jwt", sig |-> "server", user_id |-> user.id, email |-> user.email,
     exp |-> (now \div 2) + hours_24, issued_at |-> now]

\* signup up to the existence check (app.py 173-185): an early 400, or a
\* database session holding the new User.  Requests of other clients may be
\* served before its commit.
signup_query(email_arg, password) ==
    LET email == signup_email(email_arg)
        \* registered is what the existence check of line 184 finds.
        req == [op |-> "signup", email |-> email_arg, password |-> password,
                registered |-> users_by_email(email) # {}]
    IN /\ IF email = Empty \/ password = ""
          THEN /\ response' = req @@ [status |-> 400, error |-> "Email and password required"]
               /\ UNCHANGED sessions
          ELSE IF Len(password) < 6
          THEN /\ response' = req @@ [status |-> 400,
                                      error |-> "Password must be at least 6 characters"]
               /\ UNCHANGED sessions
          ELSE IF users_by_email(email) # {}
          THEN /\ response' = req @@ [status |-> 400, error |-> "Email already registered"]
               /\ UNCHANGED sessions
          ELSE /\ sessions' = sessions \cup
                      {[id |-> next_session_id, op |-> "signup", email_arg |-> email_arg,
                        password |-> password, email |-> email,
                        password_hash |-> hash_password(password)]}
               /\ UNCHANGED response
       /\ UNCHANGED <<backend, users_id_seq, users, questions, progress, now, ntoggles, creds, hist,
                      last_toggle>>

\* Variant: the users table without the unique constraint on email.
insert_user_ok_without_unique(email) == TRUE

\* INSERT INTO users: email is declared unique.
insert_user_ok(email) == users_by_email(email) = {}

\* signup from db.session.add to db.session.commit() (app.py 187-190).  The
\* commit sends the INSERT and then the COMMIT; raises says where it raises for
\* a reason outside the data (the connection, a lock): "insert" before the
\* INSERT has reached the server, "commit" after it.  A commit that raises or
\* is refused is answered the 500 of lines 205-207 after the rollback.  A
\* commit that is carried out ends the transaction with the user stored and
\* the request not yet answered: requests of other clients may be served
\* before the handler goes back to the database.
signup_commit(s, raises) ==
    LET req == [op |-> "signup", email |-> s.email_arg, password |-> s.password,
                registered |-> FALSE]
        new_user == [id |-> next_user_id, email |-> s.email,
                     password_hash |-> s.password_hash]
    IN /\ users_id_seq' = IF backend = "postgresql" /\ raises # "insert"
                          THEN users_id_seq + 1
                          ELSE users_id_seq
       /\ IF raises = "nothing" /\ insert_user_ok(s.email)
          THEN /\ users' = users \cup {new_user}
               /\ sessions' = (sessions \ {s}) \cup
                      {[id |-> s.id, op |-> "signup committed",
                        email_arg |-> s.email_arg, password |-> s.password,
                        user_id |-> new_user.id]}
               /\ creds' = creds \cup {[email |-> s.email_arg, password |-> s.password,
                                       user_id |-> new_user.id, via |-> "signup",
                                       old |-> ""]}
               /\ UNCHANGED response
          ELSE /\ response' = req @@ [status |-> 500, committed |-> FALSE,
                                      error |-> "Registration failed"]
               /\ sessions' = sessions \ {s}
               /\ UNCHANGED <<users, creds>>
       /\ UNCHANGED <<backend, questions, progress, now, ntoggles, hist, last_toggle>>

\* signup after its commit (app.py 192-207): new_user.id and new_user.email are
\* read again from the database in a new transaction, and the token is made
\* at the clock reading of that moment.  raises is the reload or jwt.encode
\* raising: the answer is the 500 of lines 205-207, and the rollback of the
\* except branch has nothing to undo, the user is stored.
signup_answer(s, raises) ==
    LET new_user == CHOOSE u \in users : u.id = s.user_id
        req == [op |-> "signup", email |-> s.email_arg, password |-> s.password,
                registered |-> FALSE, committed |-> TRUE]
    IN /\ response' =
            IF raises
            THEN req @@ [status |-> 500, error |-> "Registration failed"]
            ELSE req @@ [status |-> 201, token |-> issue_token(new_user),
                         user |-> [id |-> new_user.id, email |-> new_user.email]]
       /\ sessions' = sessions \ {s}
       /\ UNCHANGED <<backend, users_id_seq, users, questions, progress, now, ntoggles,
                      creds, hist, last_toggle>>

login(email_arg, password) ==
    LET email == login_email(email_arg)
        req == [op |-> "login", email |-> email_arg, password |-> password]
    IN /\ IF email = Empty \/ password = ""
          THEN response' = req @@ [status |-> 400, error |-> "Email and password required"]
          ELSE IF users_by_credentials(email, password) = {}
          THEN response' = req @@ [status |-> 401, error |-> "Invalid credentials"]
          ELSE LET user == CHOOSE u \in users_by_credentials(email, password) : TRUE
               IN response' = req @@ [status |-> 200, token |-> issue_token(user),
                                      user |-> [id |-> user.id, email |-> user.email]]
       /\ UNCHANGED <<backend, users_id_seq, users, questions, progress, now, ntoggles, creds, hist,
                      last_toggle, sessions>>

\* Variant: the hash of the current password is written back.
new_password_hash_of_current(current_password, new_password) ==
    hash_password(current_password)

\* user.password_hash = hash_password(new_password)
new_password_hash(current_password, new_password) == hash_password(new_password)

\* change_password up to the assignment of the new hash in the session (app.py
\* 211-229): an early 400 or 401, or a database session holding the changed
\* user.  Requests of other clients may be served before its commit.
change_password_query(email_arg, current_password, new_password) ==
    LET email == change_password_email(email_arg)
        req == [op |-> "change_password", email |-> email_arg,
                password |-> current_password, new_password |-> new_password]
    IN /\ IF email = Empty \/ current_password = "" \/ new_password = ""
          THEN /\ response' = req @@ [status |-> 400, error |-> "All fields are required"]
               /\ UNCHANGED sessions
          ELSE IF Len(new_password) < 6
          THEN /\ response' = req @@ [status |-> 400,
                                      error |-> "New password must be at least 6 characters"]
               /\ UNCHANGED sessions
          ELSE IF users_by_credentials(email, current_password) = {}
          THEN /\ response' = req @@ [status |-> 401,
                                      error |-> "Invalid email or current password"]
               /\ UNCHANGED sessions
          ELSE LET user == CHOOSE u \in users_by_credentials(email, current_password) : TRUE
               IN /\ sessions' = sessions \cup
                         {[id |-> next_session_id, op |-> "change_password",
                           email_arg |-> email_arg, password |-> current_password,
                           new_password |-> new_password, user_id |-> user.id,
                           loaded_hash |-> user.password_hash,
                           password_hash |->
                               new_password_hash(current_password, new_password)]}
                  /\ UNCHANGED response
       /\ UNCHANGED <<backend, users_id_seq, users, questions, progress, now, ntoggles, creds, hist,
                      last_toggle>>

\* Variant: the row changed in the session stays changed when the commit raises.
users_after_failed_commit_no_rollback(s) ==
    {IF u.id = s.user_id THEN [u EXCEPT !.password_hash = s.password_hash] ELSE u :
        u \in users}

\* db.session.rollback() in the except branch: the stored rows stay as they were.
users_after_failed_commit(s) == users

\* change_password from db.session.commit() to the response (app.py 230-235):
\* an UPDATE of the user's row by its id.  hash_password has no salt, and the
\* session flushes no UPDATE for an attribute assigned the value it was loaded
\* with.
change_password_commit(s, fails) ==
    LET req == [op |-> "change_password", email |-> s.email_arg,
                password |-> s.password, new_password |-> s.new_password]
    IN /\ IF ~fails
          THEN /\ users' = {IF u.id = s.user_id /\ s.password_hash # s.loaded_hash
                             THEN [u EXCEPT !.password_hash = s.password_hash]
                             ELSE u : u \in users}
               /\ response' = req @@ [status |-> 200, committed |-> TRUE]
               /\ creds' = {c \in creds : c.user_id # s.user_id} \cup
                     {[email |-> s.email_arg, password |-> s.new_password,
                       user_id |-> s.user_id, via |-> "change_password",
                       old |-> s.password]}
          ELSE /\ users' = users_after_failed_commit(s)
               /\ response' = req @@ [status |-> 500, committed |-> FALSE,
                                      error |-> "Password update failed"]
               /\ UNCHANGED creds
       /\ sessions' = sessions \ {s}
       /\ UNCHANGED <<backend, users_id_seq, questions, progress, now, ntoggles, hist, last_toggle>>

----------------------------------------------------------------------------
(* token_required *)

\* No Authorization header (or an empty one), and a token that is not a JWT.
NoToken == [kind |-> "none"]
Garbage == [kind |-> "garbage"]

\* The token with a signature made with another secret.
forged(token) == [token EXCEPT !.sig = "forged"]

\* Variant: the expiry is not checked.
jwt_expired_not_checked(token, t) == FALSE

\* jwt.decode's check of exp at clock reading t (half seconds).  The releases of
\* the library differ: the newer ones compare exp <= now with now in fractions
\* of a second, the older ones exp < now with now in whole seconds.
jwt_expired(token, t) ==
    IF config.pyjwt = "exp <= now"
    THEN token.exp * 2 <= t
    ELSE token.exp < t \div 2

\* The decorator's verdict on the request: "ok", or the error of its 401.
token_required(token, t) ==
    IF token.kind = "none" THEN "Token required"
    ELSE IF token.kind # "jwt" \/ token.sig # "server" THEN "Invalid token"
    ELSE IF jwt_expired(token, t) THEN "Token expired"
    ELSE "ok"

\* A request to the toggle endpoint with the token, up to the handler's commit:
\* the decorator's 401, or the handler's database session (with the token the
\* request came with).  The clock is read twice: by jwt.decode at reading now
\* (app.py 94), and by the handler's utcnow() at reading t, after its query.
protected_toggle_query(token, question_id, t) ==
    LET verdict == token_required(token, now)
        req == [op |-> "toggle", token |-> token, t |-> now, question_id |-> question_id]
    IN IF verdict = "ok"
       THEN /\ sessions' = sessions \cup
                   {toggle_session(token.user_id, question_id, t)
                        @@ [token |-> token, checked_at |-> now]}
            /\ now' = t
            /\ UNCHANGED <<backend, users_id_seq, users, questions, progress, ntoggles, creds,
                           hist, last_toggle, response>>
       ELSE /\ response' = req @@ [status |-> 401, error |-> verdict]
            /\ UNCHANGED <<backend, users_id_seq, users, questions, progress, now, ntoggles, creds,
                           hist, last_toggle, sessions>>

----------------------------------------------------------------------------
(* get_ai_feedback *)

\* Values of a key of the JSON body: the key left out, null, a string, a list.
JAbsent == [json |-> "absent"]
JNull == [json |-> "null"]
JStr(text) == [json |-> "string", text |-> text]
JList(items) == [json |-> "list", items |-> items]

\* data.get(key, default), value being what the body holds under the key.
data_get(value, default) == IF value = JAbsent THEN default ELSE value

\* Python's truth value of a body value: None, '' and [] are false.
truthy(v) ==
    CASE v.json = "null" -> FALSE
      [] v.json = "string" -> v.text # Empty
      [] v.json = "list" -> v.items # <<>>

\* An attached file: {name, type, base64}; the type is a sequence of the parts
\* of the MIME type and the slash between them.
ImageFile == [type |-> <<"image", "/", "png">>, base64 |-> "data"]
JpegFile == [type |-> <<"image", "/", "jpeg">>, base64 |-> "data"]
PdfFile == [type |-> <<"application", "/", "pdf">>, base64 |-> "data"]
\* A file without a type: file_data.get('type', '') is ''.
UntypedFile == [type |-> <<>>, base64 |-> "data"]

\* file_data.get('type', '').startswith('image/')
is_image(file) ==
    Len(file.type) >= 2 /\ file.type[1] = "image" /\ file.type[2] = "/"

QuestionText == <<Chr("Q")>>
AnswerText == <<Chr("a")>>
DefaultPrompt == <<Chr("p")>>

QuestionValues == {JAbsent, JNull, JStr(Empty), JStr(QuestionText)}
AnswerValues == {JAbsent, JNull, JStr(Empty), JStr(Blank), JStr(AnswerText)}
FilesValues == {JAbsent, JNull, JStr(Empty), JStr(AnswerText), JList(<<>>),
                JList(<<ImageFile>>), JList(<<PdfFile>>),
                JList(<<JpegFile, PdfFile, ImageFile, UntypedFile>>)}

\* Variant: the answer is tested for None before it is stripped.
answer_is_blank_guarded(answer) ==
    [raises |-> FALSE,
     value |-> IF answer.json = "string" THEN strip(answer.text) = Empty ELSE TRUE]

\* not answer.strip(): a value without a strip method raises AttributeError.
answer_is_blank(answer) ==
    IF answer.json = "string"
    THEN [raises |-> FALSE, value |-> strip(answer.text) = Empty]
    ELSE [raises |-> TRUE, value |-> FALSE]

\* The number of image files, as counted for files_processed.  Inside the try
\* block, iterating over None raises, and so does file_data.get on a character
\* of a string; the empty string has no character to iterate over.
files_processed(files) ==
    IF files.json = "list"
    THEN [raises |-> FALSE,
          value |-> Cardinality({i \in DOMAIN files.items : is_image(files.items[i])})]
    ELSE IF files.json = "string" /\ files.text = Empty
    THEN [raises |-> FALSE, value |-> 0]
    ELSE [raises |-> TRUE, value |-> 0]

\* The handler; service is what the external service does with the request:
\* it returns a text, or the call raises.
get_ai_feedback(data_question, data_answer, data_prompt, data_files, service) ==
    LET question == data_get(data_question, JStr(Empty))
        answer == data_get(data_answer, JStr(Empty))
        prompt == data_get(data_prompt, JStr(DefaultPrompt))
        files == data_get(data_files, JList(<<>>))
        req == [op |-> "feedback", service |-> service,
                data |-> <<data_question, data_answer, data_prompt, data_files>>]
    IN /\ response' =
            IF ~truthy(question)
            THEN req @@ [status |-> 400, error |-> "Question is required"]
            ELSE IF answer_is_blank(answer).raises
            THEN req @@ [status |-> 500, raised |-> "AttributeError"]
            ELSE LET user_request ==
                         IF answer_is_blank(answer).value THEN "guidance"
                         ELSE IF truthy(prompt) THEN "prompt" ELSE "default"
                 IN IF ~config.gemini_api_key
                    THEN req @@ [status |-> 200, model |-> "demo",
                                 feedback |-> "demo",
                                 file_mention |-> truthy(files)]
                    ELSE IF service = "raises" \/ files_processed(files).raises
                    THEN req @@ [status |-> 500, error |-> "AI service error",
                                 feedback |-> "Unable to get AI feedback at this time. Please try again."]
                    ELSE req @@ [status |-> 200, model |-> "gemini-2.0-flash-exp",
                                 feedback |-> "response.text",
                                 user_request |-> user_request,
                                 files_processed |-> files_processed(files).value]
       /\ UNCHANGED <<backend, users_id_seq, users, questions, progress, now, ntoggles, creds, hist,
                      last_toggle, config, tokens, sessions, log>>

----------------------------------------------------------------------------
(* Specifications *)

NoHist == [n |-> 0, prev |-> "absent", orig |-> "absent", set_at |-> -1]

\* The pairs of a user id (the two seeded users and one who signs up on
\* SQLite) and a question id of a toggle request.
HistPairs == {1, 2, 3} \X ToggleIds

\* The configuration of a server started without GEMINI_API_KEY.
DefaultConfig == [gemini_api_key |-> FALSE, pyjwt |-> "exp <= now"]

\* No token handed out, no request under way, none answered.  The server's
\* configuration comes from its environment and is set by each specification.
NoRequests ==
    /\ tokens = {}
    /\ sessions = {}
    /\ log = <<>>

\* The store after init_db and the signup of a second user; no request yet.
InitStore ==
    /\ users = SeedUsers
    /\ users_id_seq = Cardinality(SeedUsers)
    /\ progress = {}
    /\ now = 0
    /\ ntoggles = 0
    /\ creds = {}
    /\ hist = [pair \in HistPairs |-> NoHist]
    /\ last_toggle = [user_id |-> 0, question_id |-> 0, is_completed |-> FALSE]
    /\ response = [op |-> "none", status |-> 0]
    /\ NoRequests

\* In the specifications of one client (SpecToggle, Spec, SpecFilter, SpecAuth,
\* SpecToken) a request arrives when the one before it has been answered; in
\* SpecRace the steps of the requests interleave.

\* A toggle request of a signed-in user arrives, at a clock reading not before
\* the last.
ToggleRequest(ids, limit) ==
    \E user_id \in UserIds, question_id \in ids, t \in {now, now + 1} :
        /\ sessions = {}
        /\ ntoggles < limit
        /\ t <= MaxTime
        /\ toggle_query(user_id, question_id, t)
        /\ UNCHANGED request_vars

\* The toggle under way commits, or its commit fails.
ToggleAnswer ==
    \E s \in sessions, fails \in BOOLEAN :
        /\ s.op = "toggle"
        /\ toggle_commit(s, fails)
        /\ UNCHANGED request_vars

\* A fetch request of a signed-in user.
FetchRequest(dates) ==
    \E user_id \in UserIds, category \in CategoryArgs, company_filter \in CompanyArgs,
       from_date_str \in dates, to_date_str \in dates :
        \E results \in Orders(query_ids(category, company_filter)) :
            /\ sessions = {}
            /\ get_questions(user_id, category, company_filter, from_date_str,
                             to_date_str, results)
            /\ UNCHANGED request_vars

(* Toggle requests alone, on either database backend. *)
InitToggle ==
    /\ InitStore
    /\ config = DefaultConfig
    /\ backend \in {"sqlite", "postgresql"}
    /\ questions = QuestionsA

Toggle == ToggleRequest(ToggleIds, MaxToggles)

NextToggle == Toggle \/ ToggleAnswer

SpecToggle == InitToggle /\ [][NextToggle]_vars

(* Toggles of stored questions and fetches without a date range. *)
Init ==
    /\ InitStore
    /\ config = DefaultConfig
    /\ backend = "sqlite"
    /\ questions \in QuestionTables

ToggleStored == ToggleRequest(DOMAIN questions \cap ToggleIds, MaxFetchToggles)

GetQuestions == FetchRequest({Empty})

Next == ToggleStored \/ ToggleAnswer \/ GetQuestions

Spec == Init /\ [][Next]_vars

(* The same requests on the first table of questions. *)
InitFrame ==
    /\ InitStore
    /\ config = DefaultConfig
    /\ backend = "sqlite"
    /\ questions = QuestionsA

SpecFrame == InitFrame /\ [][Next]_vars

(* Fetches with every date argument, between toggles of question 1. *)
ToggleBeforeFilter == ToggleRequest({1}, MaxFilterToggles)

GetQuestionsFiltered == FetchRequest(DateArgs)

NextFilter == ToggleBeforeFilter \/ ToggleAnswer \/ GetQuestionsFiltered

SpecFilter == Init /\ [][NextFilter]_vars

(* Requests of several clients, the steps of their handlers interleaved, and
   commits that may fail. *)
InitRace ==
    /\ InitStore
    /\ config = DefaultConfig
    /\ backend \in {"sqlite", "postgresql"}
    /\ questions = QuestionsA

\* Whether one more request may arrive.
MayArrive == Len(log) + Cardinality(sessions) < MaxRaceRequests

\* The answered requests: a step that opens a database session answers nothing
\* yet, any other step of a handler hands out its response.
Logged ==
    /\ log' = IF Cardinality(sessions') < Cardinality(sessions) \/ sessions' = sessions
              THEN Append(log, response')
              ELSE log
    /\ UNCHANGED <<config, tokens>>

SignupQuery ==
    \E email \in {EmailC, EmailCUpper} :
        MayArrive /\ signup_query(email, "secret") /\ Logged

SignupCommit ==
    \E s \in sessions, raises \in {"nothing", "insert", "commit"} :
        s.op = "signup" /\ signup_commit(s, raises) /\ Logged

SignupReload ==
    \E s \in sessions, raises \in BOOLEAN :
        s.op = "signup committed" /\ signup_answer(s, raises) /\ Logged

ChangePasswordQuery ==
    \E current_password \in {"password", "hunter22"},
       new_password \in {"password", "hunter22"} :
        /\ MayArrive
        /\ change_password_query(EmailA, current_password, new_password)
        /\ Logged

ChangePasswordCommit ==
    \E s \in sessions, fails \in BOOLEAN :
        s.op = "change_password" /\ change_password_commit(s, fails) /\ Logged

\* Each toggle request reads the clock half a second after the one before; the
\* toggles are those of the two seeded users.
ToggleQuery ==
    \E user_id \in {u.id : u \in SeedUsers}, question_id \in {1, 9}, t \in {now + 1} :
        /\ MayArrive
        /\ t <= MaxTime
        /\ toggle_query(user_id, question_id, t)
        /\ Logged

ToggleCommit ==
    \E s \in sessions, fails \in BOOLEAN :
        s.op = "toggle" /\ toggle_commit(s, fails) /\ Logged

NextRace ==
    \/ SignupQuery \/ SignupCommit \/ SignupReload
    \/ ChangePasswordQuery \/ ChangePasswordCommit
    \/ ToggleQuery \/ ToggleCommit

SpecRace == InitRace /\ [][NextRace]_vars

(* Logins and signups at early clock readings, and requests to a protected
   endpoint up to a day later, with either release of the JWT library. *)
InitToken ==
    /\ InitStore
    /\ backend = "sqlite"
    /\ questions = QuestionsA
    /\ config \in {[DefaultConfig EXCEPT !.pyjwt = v] :
                       v \in {"exp <= now", "exp < int(now)"}}


\* The clock readings of the requests: the early ones, and those of a day
\* later around the expiry of each token issued, from half a second before it
\* to a second after it.
Readings ==
    (0..MaxIssueTime) \cup UNION {(2 * tok.exp - 1)..(2 * tok.exp + 2) : tok \in tokens}

\* Time passes, to the next of the readings.  The time that passes within a
\* request is the handler's second reading of the clock; its commit reads none.
Tick ==
    /\ sessions = {}
    /\ \E t \in Readings :
           /\ t > now
           /\ \A u \in Readings : u > now => t <= u
           /\ now' = t
    /\ UNCHANGED <<backend, users_id_seq, users, questions, progress, ntoggles, creds, hist,
                   last_toggle, response, config, tokens, sessions, log>>

\* The token of a successful login or signup reaches the client.
token_received == IF "token" \in DOMAIN response' THEN {response'.token} ELSE {}

TokenLogin ==
    /\ sessions = {}
    /\ Cardinality(tokens) < MaxTokens
    /\ now <= MaxIssueTime
    /\ login(EmailAUpper, "password")
    /\ tokens' = tokens \cup token_received
    /\ UNCHANGED <<config, log>>

TokenSignup ==
    /\ sessions = {}
    /\ Cardinality(tokens) < MaxTokens
    /\ now <= MaxIssueTime
    /\ signup_query(EmailC, "secret")
    /\ UNCHANGED <<config, tokens, log>>

TokenSignupCommit ==
    \E s \in sessions, raises \in {"nothing", "insert", "commit"} :
        /\ s.op = "signup"
        /\ signup_commit(s, raises)
        /\ UNCHANGED <<config, tokens, log>>

TokenSignupAnswer ==
    \E s \in sessions, raises \in BOOLEAN :
        /\ s.op = "signup committed"
        /\ signup_answer(s, raises)
        /\ tokens' = tokens \cup token_received
        /\ UNCHANGED <<config, log>>

\* A request to the protected endpoint; one the decorator rejects is answered
\* at once.  The handler reads the clock up to a second after the decorator.
\* A request without a token or with one that is not a JWT is rejected before
\* any expiry is looked at; such requests are made at the early readings.
ProtectedToggle ==
    \E token \in tokens \cup {forged(tok) : tok \in tokens}
                     \cup (IF now <= MaxIssueTime THEN {NoToken, Garbage} ELSE {}),
       t \in {u \in Readings : now <= u /\ u <= now + 2} :
        /\ sessions = {}
        /\ Len(log) < MaxTokenRequests
        /\ protected_toggle_query(token, 1, t)
        /\ log' = IF sessions' = sessions THEN Append(log, response') ELSE log
        /\ UNCHANGED <<config, tokens>>

\* The accepted request is answered; the entry of the log tells the token it
\* came with and the clock reading of the decorator's check.
ProtectedToggleAnswer ==
    \E s \in sessions, fails \in BOOLEAN :
        /\ s.op = "toggle"
        /\ toggle_commit(s, fails)
        /\ log' = Append(log, response' @@ [token |-> s.token, t |-> s.checked_at])
        /\ UNCHANGED <<config, tokens>>

NextToken ==
    \/ Tick
    \/ TokenLogin
    \/ TokenSignup \/ TokenSignupCommit \/ TokenSignupAnswer
    \/ ProtectedToggle \/ ProtectedToggleAnswer

SpecToken == InitToken /\ [][NextToken]_vars

(* Feedback requests, with and without the API key configured. *)
InitFeedback ==
    /\ InitStore
    /\ backend = "sqlite"
    /\ questions = QuestionsA
    /\ config \in {[DefaultConfig EXCEPT !.gemini_api_key = key] : key \in BOOLEAN}

Feedback ==
    \E question \in QuestionValues, answer \in AnswerValues, prompt \in {JAbsent, JStr(Empty)},
       files \in FilesValues, service \in {"text", "raises"} :
        get_ai_feedback(question, answer, prompt, files, service)

SpecFeedback == InitFeedback /\ [][Feedback]_vars

----------------------------------------------------------------------------
(* Properties of the completion toggle (SpecToggle, SpecRace) *)

PairOf(r) == <<r.user_id, r.question_id>>

\* C1: in every reachable store, a row that is not completed has no completion
\* timestamp, and a completed row has one, equal to the clock reading of the
\* toggle that last set it to completed.
C1_TimestampMatchesFlag ==
    \A r \in progress :
        /\ ~r.is_completed => r.completed_at = None
        /\ r.is_completed =>
              /\ r.completed_at # None
              /\ hist[PairOf(r)].set_at >= 0
              /\ r.completed_at = utcnow(hist[PairOf(r)].set_at)

\* A row toggled back to not completed next to a row completed at a later reading.
C1_Witness ==
    \E r1, r2 \in progress :
        /\ ~r1.is_completed /\ hist[PairOf(r1)].n = 2
        /\ r2.is_completed /\ r2.completed_at = utcnow(2)

\* C2: a successful toggle by user u on question q creates a completed row with
\* the clock reading of the request when its query found none for (u, q), and
\* otherwise flips the flag of the row found, stamping the reading when flipping
\* to true and clearing the timestamp when flipping to false; the is_completed
\* it returns is the flag its commit stored.
C2_ToggleCreatesOrFlips ==
    [][(ntoggles' # ntoggles /\ response'.status = 200) =>
         \E s \in sessions \ sessions' :
             LET u == response'.user_id
                 q == response'.question_id
                 before == s.seen
                 after == {r \in progress' : r.user_id = u /\ r.question_id = q}
             IN /\ s.user_id = u /\ s.question_id = q
                /\ Cardinality(after) = 1
                /\ \A a \in after :
                     /\ before = {} => a.is_completed /\ a.completed_at = utcnow(s.t)
                     /\ \A b \in before :
                          /\ a.is_completed = ~b.is_completed
                          /\ a.is_completed => a.completed_at = utcnow(s.t)
                          /\ ~a.is_completed => a.completed_at = None
                     /\ response'.is_completed = a.is_completed]_vars

\* A successful toggle has just flipped an existing row to not completed, after
\* another has created a row.
C2_Witness ==
    /\ response.op = "toggle" /\ response.status = 200
    /\ response.is_completed = FALSE
    /\ hist[<<response.user_id, response.question_id>>].n = 2
    /\ \E r \in progress : r.is_completed /\ hist[PairOf(r)].n = 1

\* C3 as stated: after two successive toggles of a pair the row has its original
\* completed state and no completion timestamp, whatever the original state.
C3_TwoTogglesClearTimestamp ==
    \A pair \in DOMAIN hist :
        hist[pair].n = 2 =>
            /\ has_progress(pair[1], pair[2])
            /\ progress_first(pair[1], pair[2]).is_completed = (hist[pair].orig = "true")
            /\ progress_first(pair[1], pair[2]).completed_at = None

\* C3, amended: after two successive toggles of a pair the row has its original
\* completed state; its timestamp is cleared when that state was absent or not
\* completed, and is the clock reading of the second toggle when it was completed.
C3_TwoTogglesRestoreFlag ==
    \A pair \in DOMAIN hist :
        hist[pair].n = 2 =>
            /\ has_progress(pair[1], pair[2])
            /\ LET r == progress_first(pair[1], pair[2])
               IN /\ r.is_completed = (hist[pair].orig = "true")
                  /\ hist[pair].orig # "true" => r.completed_at = None
                  /\ hist[pair].orig = "true" =>
                        r.completed_at = utcnow(hist[pair].set_at)

\* A pair toggled twice from the completed state, completed again at a later
\* clock reading than the first time.
C3_Witness ==
    \E pair \in DOMAIN hist :
        /\ hist[pair].n = 2 /\ hist[pair].orig = "true"
        /\ hist[pair].set_at >= 1
        /\ has_progress(pair[1], pair[2])
        /\ progress_first(pair[1], pair[2]).is_completed

\* C15: in every reachable state each progress row belongs to a stored user
\* and to a stored question; a toggle leaves no row whose question_id or user_id
\* identifies nothing.
C15_RowsReferenceUserAndQuestion ==
    \A r \in progress : r.user_id \in UserIds /\ r.question_id \in DOMAIN questions

----------------------------------------------------------------------------
(* Properties of the question pipeline (Spec, SpecFilter) *)

IsFetch == response.op = "questions"

\* Positions of the completed and of the not-completed questions of the last
\* response.
CompletedPos == {i \in DOMAIN response.questions : response.questions[i].is_completed}
UncompletedPos == {i \in DOMAIN response.questions : ~response.questions[i].is_completed}

\* The parsed timestamp of the question at position i of the last response.
ParsedAt(i) == parse_timestamp(response.questions[i].timestamp)

\* C4: in every pipeline output every completed question comes before every
\* not-completed one, whatever their timestamps; so with a completed question in
\* the output the first element is completed.
C4_CompletedFirst ==
    IsFetch =>
        /\ \A i \in CompletedPos, j \in UncompletedPos : i < j
        /\ CompletedPos # {} => response.questions[1].is_completed

\* A completed question precedes a not-completed one with a later timestamp.
C4_Witness ==
    /\ IsFetch
    /\ \E i \in CompletedPos, j \in UncompletedPos :
          /\ i < j
          /\ ParsedAt(i) # None /\ ParsedAt(j) # None
          /\ DtLess(ParsedAt(i), ParsedAt(j))

\* The last response is a fetch without filters, by the user of the last
\* committed toggle, of the category of the question that toggle completed.
FetchAfterCompleting ==
    /\ IsFetch
    /\ last_toggle.is_completed
    /\ response.user_id = last_toggle.user_id
    /\ response.company = "" /\ response.from_date = Empty /\ response.to_date = Empty
    /\ last_toggle.question_id \in DOMAIN questions
    /\ questions[last_toggle.question_id].question_category = response.category

\* C5 as stated: the completed block is in ascending order of completion
\* timestamp, and the fetch that follows the completion of a question lists that
\* question, completed, as the last element of the completed block.
C5_JustCompletedIsLast ==
    /\ IsFetch =>
          \A i, j \in CompletedPos :
              i < j => ~StrLess(response.questions[j].completed_at,
                                response.questions[i].completed_at)
    /\ FetchAfterCompleting =>
          /\ CompletedPos # {}
          /\ response.questions[Cardinality(CompletedPos)].id = last_toggle.question_id
          /\ response.questions[Cardinality(CompletedPos)].is_completed

\* The last response is a fetch with no date bound in force.
NoDateFilter ==
    /\ IsFetch
    /\ (response.from_date = Empty \/ strptime(response.from_date, FmtYMD) = None)
    /\ (response.to_date = Empty \/ strptime(response.to_date, FmtYMD) = None)

\* Ids of the stored questions the request selects by category and company.
SelectedIds ==
    {id \in DOMAIN questions :
        /\ questions[id].question_category = response.category
        /\ (response.company = "" \/ questions[id].company_normalized = response.company)}

OutputIds == {response.questions[i].id : i \in DOMAIN response.questions}

\* Descending order of the parseable timestamps of the not-completed block, and
\* retention of the selected questions without a parseable timestamp.
UncompletedDescending ==
    /\ \A i, j \in UncompletedPos :
          (i < j /\ ParsedAt(i) # None /\ ParsedAt(j) # None)
              => ~DtLess(ParsedAt(i), ParsedAt(j))
    /\ \A id \in SelectedIds :
          parse_timestamp(questions[id].timestamp) = None => id \in OutputIds

\* C6 as stated: without a date filter the not-completed block is in descending
\* order of parsed timestamp, questions without a parseable timestamp are
\* retained, and each of them comes after every not-completed question with a
\* parseable timestamp.
C6_UnparseableAfterEveryParseable ==
    NoDateFilter =>
        /\ UncompletedDescending
        /\ \A i, j \in UncompletedPos :
              (ParsedAt(i) = None /\ ParsedAt(j) # None) => j < i

\* C6, amended: as above, but a question without a parseable timestamp comes
\* after every not-completed question whose parsed timestamp is later than the
\* earliest representable time (datetime.min); with a question parsed to exactly
\* that time it ties, and the two keep the order of the query.
C6_UnparseableSortsAsEarliest ==
    NoDateFilter =>
        /\ UncompletedDescending
        /\ \A i, j \in UncompletedPos :
              (ParsedAt(i) = None /\ ParsedAt(j) # None /\ DtLess(datetime_min, ParsedAt(j)))
                  => j < i

\* Two not-completed questions with different parseable timestamps followed by
\* one without a parseable timestamp.
C6_Witness ==
    /\ NoDateFilter
    /\ \E i, j, k \in UncompletedPos :
          /\ i < j /\ j < k
          /\ ParsedAt(i) # None /\ ParsedAt(j) # None /\ DtLess(ParsedAt(j), ParsedAt(i))
          /\ ParsedAt(k) = None

\* C9: a slug outside the seven known ones is the category label as it stands;
\* when no question carries it the response is a success with an empty list and
\* count 0; the count is always the length of the list returned.
C9_UnknownSlugPassesThrough ==
    IsFetch =>
        /\ response.status = 200
        /\ response.count = Len(response.questions)
        /\ \A i \in DOMAIN response.questions :
              response.questions[i].question_category = response.category
        /\ response.slug \notin DOMAIN category_map =>
              /\ response.category = response.slug
              /\ (\A id \in DOMAIN questions :
                      questions[id].question_category # response.slug)
                    => (response.questions = <<>> /\ response.count = 0)

\* A fetch of a slug no question carries.
C9_Witness ==
    /\ IsFetch
    /\ response.slug = "nope"
    /\ response.category = "nope"
    /\ response.count = 0
    /\ progress # {}

\* The upper bound of a well-formed to_date: the last second of that day.
EndOfDay(d) == <<d[1], d[2], d[3], 23, 59, 59>>

\* Whether a date argument of the last request is in force.
FromInForce == response.from_date # Empty /\ strptime(response.from_date, FmtYMD) # None
ToInForce == response.to_date # Empty /\ strptime(response.to_date, FmtYMD) # None

\* The selected questions inside the bounds in force (both inclusive); a
\* question without a parseable timestamp is inside no bound.
InRangeIds ==
    {id \in SelectedIds :
        LET t == parse_timestamp(questions[id].timestamp)
        IN (FromInForce \/ ToInForce) =>
              /\ t # None
              /\ FromInForce => ~DtLess(t, strptime(response.from_date, FmtYMD))
              /\ ToInForce => ~DtLess(EndOfDay(strptime(response.to_date, FmtYMD)), t)}

\* C7: with a valid from and/or to date the output holds exactly the selected
\* questions whose parsed timestamp t has from <= t and t <= end of day of to,
\* each once; a question whose timestamp cannot be parsed is dropped.
C7_DateRangeInclusive ==
    (IsFetch /\ (FromInForce \/ ToInForce)) =>
        /\ OutputIds = InRangeIds
        /\ Len(response.questions) = Cardinality(OutputIds)
        /\ \A i \in DOMAIN response.questions : ParsedAt(i) # None

\* from = to = 2023-03-01 keeps the question of 3/1/2023 10:00:00 and drops a
\* later and an unparseable one.
C7_Witness ==
    /\ IsFetch
    /\ response.from_date = Date_2023_03_01 /\ response.to_date = Date_2023_03_01
    /\ Cardinality(SelectedIds) = 3
    /\ Len(response.questions) = 1
    /\ response.questions[1].timestamp = Ts_3_1_2023_10h

\* C8: a malformed from_date or to_date is no reason to reject: the response is
\* a success, the malformed bound is not applied, a well-formed other bound is,
\* and with no well-formed bound the output is that of a request without dates,
\* questions without a parseable timestamp included.
C8_MalformedDateIgnored ==
    (IsFetch /\ ( (response.from_date # Empty /\ ~FromInForce)
                  \/ (response.to_date # Empty /\ ~ToInForce) )) =>
        /\ response.status = 200
        /\ OutputIds = InRangeIds
        /\ Len(response.questions) = Cardinality(OutputIds)
        /\ ~(FromInForce \/ ToInForce) => OutputIds = SelectedIds

\* Both dates malformed: all three selected questions are returned, one of them
\* without a parseable timestamp.
C8_Witness ==
    /\ IsFetch
    /\ response.from_date = Date_2023_02_30 /\ response.to_date = Date_2023_02_30
    /\ Len(response.questions) = 3
    /\ \E i \in DOMAIN response.questions : ParsedAt(i) = None

(* Account requests on a store without users. *)
InitAuth ==
    /\ backend = "sqlite"
    /\ users = {}
    /\ users_id_seq = 0
    /\ questions = QuestionsA
    /\ progress = {}
    /\ now = 0
    /\ ntoggles = 0
    /\ creds = {}
    /\ hist = [pair \in HistPairs |-> NoHist]
    /\ last_toggle = [user_id |-> 0, question_id |-> 0, is_completed |-> FALSE]
    /\ response = [op |-> "none", status |-> 0]
    /\ NoRequests
    /\ config = DefaultConfig

Signup ==
    \E email \in EmailArgs, password \in PasswordArgs :
        sessions = {} /\ signup_query(email, password) /\ UNCHANGED request_vars

SignupInsert ==
    \E s \in sessions, raises \in {"nothing", "insert", "commit"} :
        s.op = "signup" /\ signup_commit(s, raises) /\ UNCHANGED request_vars

SignupAnswer ==
    \E s \in sessions, raises \in BOOLEAN :
        s.op = "signup committed" /\ signup_answer(s, raises) /\ UNCHANGED request_vars

Login ==
    \E email \in EmailArgs, password \in PasswordArgs :
        sessions = {} /\ login(email, password) /\ UNCHANGED request_vars

ChangePassword ==
    \E email \in EmailArgs, current_password \in PasswordArgs,
       new_password \in PasswordArgs :
        /\ sessions = {}
        /\ change_password_query(email, current_password, new_password)
        /\ UNCHANGED request_vars

ChangePasswordAnswer ==
    \E s \in sessions, fails \in BOOLEAN :
        /\ s.op = "change_password"
        /\ change_password_commit(s, fails)
        /\ UNCHANGED request_vars

NextAuth ==
    \/ Signup \/ SignupInsert \/ SignupAnswer
    \/ Login
    \/ ChangePassword \/ ChangePasswordAnswer

SpecAuth == InitAuth /\ [][NextAuth]_vars

\* The unfiltered pipeline output for the user were the progress rows as given:
\* the joined rows as dictionaries, the completed block, then the others.
OutputFrom(rows, user_id, results) ==
    LET mine(id) == {r \in rows : r.user_id = user_id /\ r.question_id = id}
        row(id) == CHOOSE r \in mine(id) : TRUE
        final == [i \in 1..Len(results) |->
                     LET id == results[i]
                     IN [id |-> id,
                         timestamp |-> questions[id].timestamp,
                         company_normalized |-> questions[id].company_normalized,
                         question_category |-> questions[id].question_category,
                         is_completed |-> IF mine(id) # {} THEN row(id).is_completed
                                          ELSE FALSE,
                         completed_at |-> IF mine(id) # {} /\ row(id).completed_at # None
                                          THEN iso_text[row(id).completed_at]
                                          ELSE None]] \o <<>>
    IN completed_questions(final) \o uncompleted_questions(final)

\* The pipeline output for the user is the same after the step as before it,
\* for every category, company filter and order of the query's rows.
SamePipelineOutput(user_id) ==
    \A category \in CategoryArgs, company_filter \in CompanyArgs :
        \A results \in Orders(query_ids(category, company_filter)) :
            /\ OutputFrom(progress, user_id, results)
                   = final_list(user_id, results, Empty, Empty)
            /\ OutputFrom(progress', user_id, results)
                   = OutputFrom(progress, user_id, results)

\* C19: a toggle by user u on question q changes nothing but the progress row
\* of (u, q): users, questions and the rows of other users and questions stay as
\* they were, and so does the pipeline output (members, flags, order) of every
\* other user; a fetch changes no stored state.
C19_ToggleChangesOneRow ==
    [][ /\ ntoggles' # ntoggles =>
             LET u == response'.user_id
                 q == response'.question_id
             IN /\ users' = users /\ questions' = questions
                /\ {r \in progress' : PairOf(r) # <<u, q>>}
                       = {r \in progress : PairOf(r) # <<u, q>>}
                /\ progress' # progress =>
                       \A v \in UserIds \ {u} : SamePipelineOutput(v)
        /\ response'.op = "questions" =>
             users' = users /\ questions' = questions /\ progress' = progress ]_vars

\* A toggle by user 2 has just been answered while user 1 has a completed
\* question of the same category.
C19_Witness ==
    /\ response.op = "toggle" /\ response.status = 200 /\ response.user_id = 2
    /\ \E r \in progress : /\ r.user_id = 1 /\ r.is_completed
                            /\ r.question_id # response.question_id

----------------------------------------------------------------------------
(* Properties of the account requests (SpecAuth) *)

\* The step hands out a response: it is not the step of a handler that opens a
\* database session.
Answers == Cardinality(sessions') < Cardinality(sessions) \/ sessions' = sessions

\* A login step with the email and password of an earlier signup that
\* registered its user (answered 201, or 500 after the commit), the user's
\* password not changed since: it succeeds as that user.
LoginAfterSignupSucceeds ==
    (Answers /\ response'.op = "login") =>
        \A c \in creds' :
            (c.via = "signup" /\ c.email = response'.email
                /\ c.password = response'.password) =>
                /\ response'.status = 200
                /\ response'.user.id = c.user_id

\* The normalized email of the signup answered by the step, and the users
\* stored with it and the hash of its password.
SignupNormalized == lower(strip(response'.email))
SignupStored ==
    {u \in users' : /\ u.email = SignupNormalized
                    /\ u.password_hash = hash_password(response'.password)}

\* C10 as stated: a signup with a non-empty email whose trimmed, lower-cased form
\* is not registered and a password of 6 or more characters is answered 201, and
\* a later login with the same email and password succeeds while the user's
\* password is not changed.
C10_SignupOfNonEmptyEmail ==
    [][ /\ ( /\ Answers
             /\ response'.op = "signup"
             /\ response'.email # Empty
             /\ ~response'.registered
             /\ Len(response'.password) >= 6 ) => response'.status = 201
        /\ LoginAfterSignupSucceeds ]_vars

\* C10, amended: a signup with an email that is non-empty after trimming and
\* not yet registered, and a password of 6 or more characters, is answered 201
\* or 500.  Answered 201 it has registered the user it names.  Answered 500 it
\* has registered nobody when its commit raised, and has registered the user
\* when the code after the commit raised.  A step that registers stores one
\* new user, under an id and an email no other user has.  A later login with
\* the email and password of a signup that registered its user succeeds while
\* the user's password is not changed.
C10_SignupThenLogin ==
    [][ /\ ( /\ Answers
             /\ response'.op = "signup"
             /\ SignupNormalized # Empty
             /\ ~response'.registered
             /\ Len(response'.password) >= 6 ) =>
                 /\ response'.status \in {201, 500}
                 /\ response'.status = 201 =>
                        \E u \in SignupStored : response'.user.id = u.id
                 /\ response'.status = 500 =>
                        IF response'.committed
                        THEN SignupStored # {}
                        ELSE users' = users /\ users_by_email(SignupNormalized) = {}
        /\ users' # users /\ Cardinality(users') > Cardinality(users) =>
               \E u \in users' \ users :
                   /\ users' = users \cup {u}
                   /\ \A v \in users : v.id # u.id /\ v.email # u.email
        /\ LoginAfterSignupSucceeds ]_vars

\* A login that succeeds with the upper-case, blank-padded email and the password
\* its user signed up with, a second user being registered.
C10_Witness ==
    /\ response.op = "login" /\ response.status = 200
    /\ response.email = EmailAUpper
    /\ \E c \in creds : /\ c.via = "signup"
                         /\ c.email = response.email /\ c.password = response.password
    /\ Cardinality(users) = 2

\* A login step with the email of a successful change-password, that user's
\* password not changed again since: with the new password it succeeds as that
\* user, with the replaced password (if another) it is answered 401.
LoginAfterChangePassword ==
    (Answers /\ response'.op = "login") =>
        \A c \in creds' :
            (c.via = "change_password" /\ c.email = response'.email) =>
                /\ response'.password = c.password =>
                       response'.status = 200 /\ response'.user.id = c.user_id
                /\ (response'.password = c.old /\ c.old # c.password) =>
                       response'.status = 401

\* A change-password step that hands out the response: 400 when a field is
\* missing (the email after trimming) or the new password is shorter than 6,
\* otherwise 401 when no user has the email and the current password, otherwise
\* 200 with that user's hash replaced, or 500 when the commit raised; every
\* other hash, and every hash when the answer is 400, 401 or 500, stays as it was.
ChangePasswordOutcome ==
    (Answers /\ response'.op = "change_password") =>
        LET email == lower(strip(response'.email))
            matching == {u \in users : /\ u.email = email
                                       /\ u.password_hash = hash_password(response'.password)}
        IN IF \/ email = Empty \/ response'.password = "" \/ response'.new_password = ""
              \/ Len(response'.new_password) < 6
           THEN response'.status = 400 /\ users' = users
           ELSE IF matching = {}
           THEN response'.status = 401 /\ users' = users
           ELSE /\ response'.status \in {200, 500}
                /\ response'.status = 200 =>
                       /\ \A u \in matching :
                              [u EXCEPT !.password_hash =
                                            hash_password(response'.new_password)]
                                  \in users'
                       /\ users \ matching \subseteq users'
                       /\ Cardinality(users') = Cardinality(users)
                /\ response'.status = 500 => users' = users

\* C13: change-password with the correct current password and a new password of
\* 6 or more characters, its commit carried out by the database, replaces the
\* hash, so that login with the new password succeeds and login with the old one
\* is answered 401; with a wrong email or current password it is answered 401,
\* with a missing field or a short new password 400, no hash being changed in
\* either case.
C13_ChangePassword ==
    [][LoginAfterChangePassword /\ ChangePasswordOutcome]_vars

\* A login answered 401 with the password that a change-password replaced, the
\* email written in upper case between blanks.
C13_Witness ==
    /\ response.op = "login" /\ response.status = 401
    /\ response.email = EmailAUpper
    /\ \E c \in creds : /\ c.via = "change_password" /\ c.email = response.email
                         /\ c.old = response.password /\ c.old # c.password

----------------------------------------------------------------------------
(* Properties of interleaved requests (SpecRace) *)

\* No two users with the same email after case normalization.
UniqueEmails ==
    \A u1, u2 \in users : lower(u1.email) = lower(u2.email) => u1 = u2

\* The answer of a signup that has itself stored the user of its email.
StoredItsUser(answer) == "committed" \in DOMAIN answer /\ answer.committed

\* C11: user emails are unique after case normalization in every reachable
\* state, and every signup whose normalized email is registered when it is
\* answered gets status 400 and leaves the users as they were, also when two
\* signups for the same email both pass the existence check before either commits.
C11_DuplicateSignupIs400 ==
    /\ []UniqueEmails
    /\ [][(Len(log') = Len(log) + 1 /\ response'.op = "signup"
             /\ users_by_email(signup_email(response'.email)) # {}
             /\ ~StoredItsUser(response'))
           => (response'.status = 400 /\ users' = users)]_vars

\* C16: in every reachable state there is at most one progress row for a user
\* and a question, also when two first toggles of the pair both find no row
\* before either commits; so the join of the pipeline gives every question once
\* for a user.
C16_OneRowPerPair ==
    /\ \A r1, r2 \in progress : PairOf(r1) = PairOf(r2) => r1 = r2
    /\ \A user_id \in UserIds, id \in DOMAIN questions : joined_rows(user_id, id) = 1

\* Two first toggles of a stored question by one user, both having found no
\* row: the first commit stored the row, the second was refused by the key.
C16_Witness ==
    \E i, j \in DOMAIN log :
        /\ i < j
        /\ log[i].op = "toggle" /\ log[j].op = "toggle"
        /\ log[i].user_id = log[j].user_id
        /\ log[i].question_id = 1 /\ log[j].question_id = 1
        /\ ~log[i].found /\ ~log[j].found
        /\ log[i].status = 200
        /\ log[j].status = 500 /\ log[j].error = "IntegrityError"
        /\ \E r \in progress : PairOf(r) = <<log[i].user_id, 1>>

\* The step answers a toggle, a signup or a change-password that has got to
\* its commit.
IsCommit == Cardinality(sessions') < Cardinality(sessions)

\* C17: a toggle, signup or change-password whose commit fails is answered 500
\* and leaves the committed store as it was before the request: no progress
\* row and no user created or changed by it.  A request whose commit was
\* carried out is answered 200 or 201, but for the signup that raises after
\* its commit: its 500 leaves the new user stored.
C17_FailedCommitRollsBack ==
    [][IsCommit =>
          /\ ~response'.committed =>
                 /\ response'.status = 500
                 /\ users' = users /\ progress' = progress /\ questions' = questions
          /\ response'.committed =>
                 \/ response'.status \in {200, 201}
                 \/ /\ response'.status = 500
                    /\ response'.op = "signup"
                    /\ users_by_email(signup_email(response'.email)) # {} ]_vars

\* The answer of a request whose commit failed.
CommitFailed(entry) ==
    "committed" \in DOMAIN entry /\ ~entry.committed /\ entry.status = 500

\* A toggle, a signup and a change-password each had its commit fail and were
\* answered 500, and the store is the initial one.
C17_Witness ==
    /\ \E i \in DOMAIN log : log[i].op = "toggle" /\ CommitFailed(log[i])
    /\ \E i \in DOMAIN log : log[i].op = "signup" /\ CommitFailed(log[i])
    /\ \E i \in DOMAIN log : log[i].op = "change_password" /\ CommitFailed(log[i])
    /\ users = SeedUsers /\ progress = {}

\* The successful toggles of the pair, in the order of their commits.
SuccessfulToggles(user_id, question_id) ==
    LET of_pair(entry) == /\ entry.op = "toggle" /\ entry.status = 200
                          /\ entry.user_id = user_id /\ entry.question_id = question_id
    IN SelectSeq(log, of_pair)

\* After n successful toggles the flag is set exactly when n is odd, and the
\* answers were true, false, true, ... in the order of the commits.
NoToggleLost(user_id, question_id) ==
    LET done == SuccessfulToggles(user_id, question_id)
    IN /\ (\E r \in progress_rows(user_id, question_id) : r.is_completed)
            <=> (Len(done) % 2 = 1)
       /\ \A k \in DOMAIN done : done[k].is_completed <=> (k % 2 = 1)

RacePairs == UserIds \X {1, 9}

\* C18 as stated: for a pair that starts without a row, after any interleaving
\* of n toggles that all succeed the flag is true exactly when n is odd, and the
\* answers alternate true/false in commit order.
C18_NoToggleLost ==
    \A pair \in RacePairs : NoToggleLost(pair[1], pair[2])

\* C18, amended: the same when no successful toggle of the pair committed over a
\* change made to the row after the toggle had read it.
C18_NoToggleLostUnlessStale ==
    \A pair \in RacePairs :
        LET done == SuccessfulToggles(pair[1], pair[2])
        IN (\A k \in DOMAIN done : ~done[k].stale) => NoToggleLost(pair[1], pair[2])

\* Three successful toggles of one pair, none of them on a stale row: the row
\* is completed.
C18_Witness ==
    \E pair \in RacePairs :
        LET done == SuccessfulToggles(pair[1], pair[2])
        IN /\ Len(done) = 3
           /\ \A k \in DOMAIN done : ~done[k].stale
           /\ \E r \in progress_rows(pair[1], pair[2]) : r.is_completed

----------------------------------------------------------------------------
(* Properties of the token check (SpecToken) *)

\* The answered requests that presented a token issued by login or signup.
WithIssuedToken == {i \in DOMAIN log : log[i].token.kind = "jwt" /\ log[i].token.sig = "server"}

\* No token, a malformed token and a wrongly signed token each get their own 401.
OtherRejections ==
    \A i \in DOMAIN log :
        /\ log[i].token.kind = "none" =>
               log[i].status = 401 /\ log[i].error = "Token required"
        /\ (log[i].token.kind = "garbage"
              \/ (log[i].token.kind = "jwt" /\ log[i].token.sig # "server")) =>
               log[i].status = 401 /\ log[i].error = "Invalid token"

\* A request answered 401 leaves the store as it was.
RejectedChangesNothing ==
    (Len(log') = Len(log) + 1 /\ response'.status = 401) =>
        UNCHANGED <<users, questions, progress, hist, last_toggle, ntoggles>>

\* C12 as stated: a token issued at reading t is accepted at every reading
\* before t + 24 hours and rejected with 'Token expired' at every reading after
\* it; the three rejections are told apart, and a rejected request changes nothing.
C12_AcceptedFor24Hours ==
    /\ [](\A i \in WithIssuedToken :
            /\ log[i].t < log[i].token.issued_at + 2 * hours_24 => log[i].status # 401
            /\ log[i].t > log[i].token.issued_at + 2 * hours_24 =>
                   log[i].status = 401 /\ log[i].error = "Token expired")
    /\ []OtherRejections
    /\ [][RejectedChangesNothing]_vars

\* C12, amended: with s the whole second in which the token was issued, the
\* token is accepted at every time before s + 24 hours and rejected with
\* 'Token expired' at every time from s + 24 hours + 1 second on; the three
\* rejections are told apart, and a rejected request changes nothing.
C12_AcceptedFor24HoursOfWholeSeconds ==
    /\ [](\A i \in WithIssuedToken :
            LET second_issued == log[i].token.issued_at \div 2
            IN /\ log[i].t < 2 * (second_issued + hours_24) => log[i].status # 401
               /\ log[i].t >= 2 * (second_issued + hours_24 + 1) =>
                      log[i].status = 401 /\ log[i].error = "Token expired")
    /\ []OtherRejections
    /\ [][RejectedChangesNothing]_vars

\* A token was accepted and completed a question, and was later answered
\* 'Token expired'.
C12_Witness ==
    /\ Len(log) = 2
    /\ log[1].token = log[2].token
    /\ log[1].status = 200
    /\ log[2].status = 401 /\ log[2].error = "Token expired"
    /\ \E r \in progress : r.is_completed

----------------------------------------------------------------------------
(* Properties of the feedback proxy (SpecFeedback) *)

\* C14: a feedback request with an empty question is answered 400; with a
\* non-empty question, whatever the answer (absent and null included) and the
\* files, the outcome is the demo response, the external service's text, or a
\* 500 carrying a structured error and the fallback feedback string; no
\* exception reaches the caller.
C14_NoRawException ==
    response.op = "feedback" =>
        LET question == response.data[1]
        IN IF question \in {JAbsent, JNull, JStr(Empty)}
           THEN response.status = 400
           ELSE \/ response.status = 200 /\ response.model = "demo"
                \/ response.status = 200 /\ response.feedback = "response.text"
                \/ /\ response.status = 500
                   /\ "error" \in DOMAIN response
                   /\ "feedback" \in DOMAIN response

====
